---- MODULE Spec2Model ----
(***************************************************************************)
(* Model of the two front-ends of the Twitch OAuth helper:                 *)
(*   scripts/twitch_oauth_helper.py  (interactive, one process, "Cli...")  *)
(*   scripts/twitch_oauth_web.py     (Flask application, one shared        *)
(*                                    oauth_state dictionary)              *)
(* Both write the same two configuration files below configs/.             *)
(*                                                                         *)
(* Strings are sequences of one-character strings; the fixed pieces of a   *)
(* written line (key, colon, comment) are single tokens.  A Python dict is *)
(* a function whose DOMAIN is its set of keys.                             *)
(***************************************************************************)
EXTENDS Integers, Sequences, FiniteSets, TLC

(* ------------------------------------------------------------------ *)
(* Bounds                                                              *)
(* ------------------------------------------------------------------ *)
\* number of times the interactive script may be started
MaxRuns == 2
\* longest string drawn for the configuration-writer specification
MaxLen == 2

(* ------------------------------------------------------------------ *)
(* Python values                                                       *)
(* ------------------------------------------------------------------ *)
EmptyStr == << >>

EmptyDict == [k \in {} |-> EmptyStr]

Put(d, k, v) == [x \in (DOMAIN d) \cup {k} |-> IF x = k THEN v ELSE d[x]]

\* d.get(k, default)
Get(d, k, default) == IF k \in DOMAIN d THEN d[k] ELSE default

\* the dictionary is left as it was
ClearNothing(d) == d

\* d.clear()
Clear(d) == EmptyDict

\* `not d.get(k)` is false exactly when the key is present with a non-empty value
Truthy(d, k) == k \in DOMAIN d /\ d[k] # EmptyStr

\* str.strip(): leading and trailing blanks removed
RECURSIVE LStrip(_)
LStrip(s) == IF s # << >> /\ Head(s) = " " THEN LStrip(Tail(s)) ELSE s

RECURSIVE RStrip(_)
RStrip(s) == IF s # << >> /\ s[Len(s)] = " " THEN RStrip(SubSeq(s, 1, Len(s) - 1)) ELSE s

Strip(s) == RStrip(LStrip(s))

(* ------------------------------------------------------------------ *)
(* ConfigWriter: create_bot_config / create_channel_config             *)
(* ------------------------------------------------------------------ *)
\* f'{key}: "{value}"' followed by the rest of the line (a comment or nothing)
QuotedLine(key, value, rest) == <<key, ":", " ", "\"">> \o value \o <<"\"">> \o rest

PlainLine(key, value, rest) == <<key, ":", " ", value>> \o rest

Comment(text) == <<" ", " ", "#", text>>

BotConfigPath(bot_name) == <<"configs/bots/">> \o bot_name \o <<"_auth_secrets.yaml">>

ChannelConfigPath(channel_name) == <<"configs/channels/">> \o channel_name \o <<"_config_secrets.yaml">>

\* the access token written without its "oauth:" prefix
BotConfigLinesNoPrefix(bot_name, client_id, client_secret, access_token, refresh_token) ==
    << QuotedLine("bot_name", bot_name, << >>),
       QuotedLine("oauth", access_token, << >>),
       QuotedLine("client_id", client_id, << >>),
       QuotedLine("client_secret", client_secret, << >>),
       QuotedLine("refresh_token", refresh_token, << >>) >>

\* the five lines written between open(filename, 'w') and the close
BotConfigLines(bot_name, client_id, client_secret, access_token, refresh_token) ==
    << QuotedLine("bot_name", bot_name, << >>),
       QuotedLine("oauth", <<"oauth:">> \o access_token, << >>),
       QuotedLine("client_id", client_id, << >>),
       QuotedLine("client_secret", client_secret, << >>),
       QuotedLine("refresh_token", refresh_token, << >>) >>

\* the two names written into each other's line
ChannelConfigLinesSwapped(bot_name, channel_name) ==
    << QuotedLine("bot_name", channel_name, Comment("References which bot's auth file to use")),
       QuotedLine("channel", bot_name, Comment("Twitch channel name")),
       PlainLine("commands_enabled", "true", Comment("Enable/disable bot commands")),
       PlainLine("cooldown_seconds", "30", Comment("Cooldown between commands")) >>

\* the four lines written by create_channel_config
ChannelConfigLines(bot_name, channel_name) ==
    << QuotedLine("bot_name", bot_name, Comment("References which bot's auth file to use")),
       QuotedLine("channel", channel_name, Comment("Twitch channel name")),
       PlainLine("commands_enabled", "true", Comment("Enable/disable bot commands")),
       PlainLine("cooldown_seconds", "30", Comment("Cooldown between commands")) >>

\* open(filename, 'a'): the lines are added after what the file held
OpenAppend(fs, filename, lines) == Put(fs, filename, Get(fs, filename, << >>) \o lines)

\* open(filename, 'w') truncates: the new contents are the written lines
\* alone, whatever the file held before
OpenWrite(fs, filename, lines) == Put(fs, filename, lines)

\* create_bot_config: the file system after the call and the returned name
create_bot_config(fs, bot_name, client_id, client_secret, access_token, refresh_token) ==
    [ fs   |-> OpenWrite(fs, BotConfigPath(bot_name),
                         BotConfigLines(bot_name, client_id, client_secret,
                                        access_token, refresh_token)),
      file |-> BotConfigPath(bot_name) ]

create_channel_config(fs, bot_name, channel_name) ==
    [ fs   |-> OpenWrite(fs, ChannelConfigPath(channel_name),
                         ChannelConfigLines(bot_name, channel_name)),
      file |-> ChannelConfigPath(channel_name) ]

(* ------------------------------------------------------------------ *)
(* The consumer of the files (the bot runtime) reads them as YAML      *)
(* ------------------------------------------------------------------ *)
\* index of the first double quote at or after position i, 0 when there is none
RECURSIVE ClosingQuote(_, _)
ClosingQuote(line, i) ==
    IF i > Len(line) THEN 0
    ELSE IF line[i] = "\"" THEN i
    ELSE ClosingQuote(line, i + 1)

\* what may follow a scalar on its line: nothing, or blanks and a comment
IsLineEnd(rest) == LStrip(rest) = << >> \/ (Head(rest) = " " /\ Head(LStrip(rest)) = "#")

\* one `key: value` line; a double-quoted scalar ends at the next double quote
ParseLine(line) ==
    IF Len(line) < 4 \/ line[2] # ":" \/ line[3] # " "
    THEN [ok |-> FALSE, key |-> "", quoted |-> FALSE, str |-> << >>, plain |-> ""]
    ELSE IF line[4] = "\""
    THEN LET j == ClosingQuote(line, 5) IN
         IF j = 0 \/ ~IsLineEnd(SubSeq(line, j + 1, Len(line)))
         THEN [ok |-> FALSE, key |-> line[1], quoted |-> TRUE, str |-> << >>, plain |-> ""]
         ELSE [ok |-> TRUE, key |-> line[1], quoted |-> TRUE,
               str |-> SubSeq(line, 5, j - 1), plain |-> ""]
    ELSE [ok |-> IsLineEnd(SubSeq(line, 5, Len(line))), key |-> line[1],
          quoted |-> FALSE, str |-> << >>, plain |-> line[4]]

\* the document is readable when every line is, and no key occurs twice
Readable(lines) ==
    /\ \A i \in 1..Len(lines) : ParseLine(lines[i]).ok
    /\ \A i, j \in 1..Len(lines) : ParseLine(lines[i]).key = ParseLine(lines[j]).key => i = j

ReadKeys(lines) == {ParseLine(lines[i]).key : i \in 1..Len(lines)}

\* the parsed scalar stored under a key of a readable document
ReadField(lines, key) ==
    LET i == CHOOSE i \in 1..Len(lines) : ParseLine(lines[i]).key = key
    IN  ParseLine(lines[i])

HasStr(lines, key, value) ==
    /\ Readable(lines)
    /\ key \in ReadKeys(lines)
    /\ ReadField(lines, key).quoted
    /\ ReadField(lines, key).str = value

HasPlain(lines, key, value) ==
    /\ Readable(lines)
    /\ key \in ReadKeys(lines)
    /\ ~ReadField(lines, key).quoted
    /\ ReadField(lines, key).plain = value

(* ------------------------------------------------------------------ *)
(* The token endpoint and TokenExchangeClient                          *)
(* ------------------------------------------------------------------ *)
\* response bodies: text is what response.text returns, json what
\* response.json() returns
TokenBody(a, r) ==
    [ text |-> <<"{tokens ">> \o a \o <<" ">> \o r \o <<"}">>,
      json |-> [access_token |-> a, refresh_token |-> r] ]

ErrorBody ==
    [ text |-> <<"{\"status\":400,\"message\":\"Invalid authorization code\"}">>,
      json |-> [message |-> <<"Invalid authorization code">>] ]

AccessTokens == {<<"A">>}

RefreshTokens == {<<"R">>}

Bodies == {TokenBody(a, r) : a \in AccessTokens, r \in RefreshTokens} \cup {ErrorBody}

Statuses == {200, 400, 500}

Responses == {[status |-> s, body |-> b] : s \in Statuses, b \in Bodies}

NoResponse == [status |-> 0, body |-> [text |-> << >>, json |-> EmptyDict]]

\* the redirect_uri of the token request
WebRedirectUri(host) == <<"http://", host, "/oauth/callback">>

\* the authorization URL sends the user back to the /oauth/process route
web_get_oauth_url_process_route(client_id, scopes, host) ==
    [ base          |-> "https://id.twitch.tv/oauth2/authorize",
      client_id     |-> client_id,
      redirect_uri  |-> <<"http://", host, "/oauth/process">>,
      response_type |-> "code",
      scope         |-> scopes ]

\* web get_oauth_url: the query parameters of the authorization URL
web_get_oauth_url(client_id, scopes, host) ==
    [ base          |-> "https://id.twitch.tv/oauth2/authorize",
      client_id     |-> client_id,
      redirect_uri  |-> <<"http://", host, "/oauth/callback">>,
      response_type |-> "code",
      scope         |-> scopes ]

Scopes == <<"chat:read", "chat:edit", "channel:moderate">>

\* only a server error raises
web_exchange_raise_5xx(client_id, client_secret, auth_code, host, resp) ==
    [ posts  |-> << [ url           |-> "https://id.twitch.tv/oauth2/token",
                      client_id     |-> client_id,
                      client_secret |-> client_secret,
                      code          |-> auth_code,
                      grant_type    |-> "authorization_code",
                      redirect_uri  |-> WebRedirectUri(host) ] >>,
      raised |-> resp.status >= 500,
      status |-> resp.status,
      text   |-> resp.body.text,
      json   |-> resp.body.json ]

\* a failed POST is sent a second time
web_exchange_retry(client_id, client_secret, auth_code, host, resp) ==
    LET post == [ url           |-> "https://id.twitch.tv/oauth2/token",
                  client_id     |-> client_id,
                  client_secret |-> client_secret,
                  code          |-> auth_code,
                  grant_type    |-> "authorization_code",
                  redirect_uri  |-> WebRedirectUri(host) ]
    IN
    [ posts  |-> IF resp.status # 200 THEN <<post, post>> ELSE <<post>>,
      raised |-> resp.status # 200,
      status |-> resp.status,
      text   |-> resp.body.text,
      json   |-> resp.body.json ]

\* web exchange_code_for_tokens: one POST; any status but 200 raises
web_exchange_code_for_tokens(client_id, client_secret, auth_code, host, resp) ==
    [ posts  |-> << [ url           |-> "https://id.twitch.tv/oauth2/token",
                      client_id     |-> client_id,
                      client_secret |-> client_secret,
                      code          |-> auth_code,
                      grant_type    |-> "authorization_code",
                      redirect_uri  |-> WebRedirectUri(host) ] >>,
      raised |-> resp.status # 200,
      status |-> resp.status,
      text   |-> resp.body.text,
      json   |-> resp.body.json ]

(* ------------------------------------------------------------------ *)
(* State                                                               *)
(* ------------------------------------------------------------------ *)
VARIABLES
    frontend,     \* which of the two interchangeable programs was launched
    files,        \* the file system below configs/: path -> lines written
    oauth_state,  \* web: the module-level dictionary shared by all requests
    submitted,    \* web: the form fields of the flow in flight of the first browser,
                  \*      and the redirect_uri of the authorization URL it was given
    call,         \* the arguments of the configuration-writer calls under test
    last,         \* the step taken last: handler, browser, POSTs issued, outcome, response
    cli           \* interactive: program counter and the locals of main()

vars == <<frontend, files, oauth_state, submitted, call, last, cli>>

webVars == <<oauth_state, submitted, call>>

\* The browsers sending requests.  The flow of the first browser is followed
\* (submitted); the second stands for every other client of the server, whose
\* requests arrive in any number and any order.
Flows == {1, 2}

\* the fields that browser f has submitted in its flow in flight
Own(f) == IF f = 1 THEN submitted ELSE EmptyDict

NoCall == EmptyDict

\* values typed into forms, prompts and query strings
BotNames == {EmptyStr, <<"a">>, <<"b">>}

ChannelNames == {EmptyStr, <<"c">>}

ClientIds == {EmptyStr, <<"i">>}

ClientSecrets == {EmptyStr, <<"s">>}

Codes == {<<"x">>}

\* the Host header of a request: the names under which the server is reached
Hosts == {"ec2-host:3000", "54.190.186.177:3000"}

\* the forms posted to /setup and /oauth/start: at most one field left empty
SetupForms ==
    {form \in [bot_name : BotNames, channel_name : ChannelNames] :
        form.bot_name # EmptyStr \/ form.channel_name # EmptyStr}

StartForms ==
    {form \in [client_id : ClientIds, client_secret : ClientSecrets] :
        form.client_id # EmptyStr \/ form.client_secret # EmptyStr}

\* query strings of /oauth/callback and /oauth/process: with or without a code
QueryArgs == {EmptyDict} \cup {[code |-> c] : c \in Codes \cup {EmptyStr}}

\* whether the file system accepts the bot file and the channel file
FsAnswers == {<<TRUE, TRUE>>, <<FALSE, TRUE>>, <<TRUE, FALSE>>}

EC2_IP == <<"54.190.186.177">>

(* ------------------------------------------------------------------ *)
(* Flask: flash messages and rendered pages                            *)
(* ------------------------------------------------------------------ *)
NoFlash == [category |-> "", message |-> "", status |-> 0, text |-> << >>]

Flash(message) == [category |-> "error", message |-> message, status |-> 0, text |-> << >>]

\* the message carries the status code alone
ExchangeFlashNoBody(status, text) ==
    [ category |-> "error", message |-> "Error processing OAuth: Token exchange failed: ",
      status |-> status, text |-> << >> ]

\* flash(f'Error processing OAuth: {str(e)}') for the exception of a failed exchange
ExchangeFlash(status, text) ==
    [ category |-> "error", message |-> "Error processing OAuth: Token exchange failed: ",
      status |-> status, text |-> text ]

\* render_template_string(HTML_TEMPLATE, step=..., **ctx)
Page(step, ctx) == [step |-> step, ctx |-> ctx, flash |-> NoFlash]

\* flash(...) followed by redirect(url_for('index')): the browser lands on the start page
RedirectIndex(flash) == [step |-> "setup", ctx |-> EmptyDict, flash |-> flash]

NoPage == [step |-> "", ctx |-> EmptyDict, flash |-> NoFlash]

\* the answers the environment holds ready for a step: the response of the
\* token endpoint, and whether the file system accepts the two writes
NoEnv == <<NoResponse, TRUE, TRUE>>

\* The record of a step: the handler that ran and for which browser, the
\* POSTs it issued and the status they got, how it ended, the code the
\* request carried, the fields the browser had submitted before, the page
\* rendered (or the message printed), the files written in order, those of
\* them that existed before, the Host header of the request.
Step(handler, f, posts, status, outcome, code, own, page) ==
    [ handler |-> handler, flow |-> f, posts |-> posts, status |-> status,
      outcome |-> outcome, code |-> code, own |-> own, page |-> page,
      env |-> NoEnv, delivered |-> EmptyStr, written |-> << >>, replaced |-> {},
      host |-> "" ]

NoStep == Step("", 0, << >>, 0, "", EmptyStr, EmptyDict, NoPage)

Replaced(fs, written) == {written[i] : i \in {j \in 1..Len(written) : written[j] \in DOMAIN fs}}

(* ------------------------------------------------------------------ *)
(* Web front-end: the request handlers                                 *)
(* ------------------------------------------------------------------ *)
\* GET /
index(f) ==
    /\ frontend = "web"
    /\ last' = Step("index", f, << >>, 0, "ok", EmptyStr, Own(f),
                    Page("setup", EmptyDict))
    /\ UNCHANGED <<frontend, files, oauth_state, submitted, call, cli>>

\* POST /setup
setup_bot(f, form) ==
    /\ frontend = "web"
    /\ IF ~Truthy(form, "bot_name") \/ ~Truthy(form, "channel_name")
       THEN /\ last' = Step("setup_bot", f, << >>, 0, "validation", EmptyStr, Own(f),
                   RedirectIndex(Flash("Please provide both bot name and channel name")))
            /\ UNCHANGED <<oauth_state, submitted>>
       ELSE /\ oauth_state' = Put(Put(oauth_state, "bot_name", form["bot_name"]),
                                  "channel_name", form["channel_name"])
            /\ submitted' = IF f = 1
                            THEN [bot_name |-> form["bot_name"],
                                  channel_name |-> form["channel_name"]]
                            ELSE submitted
            /\ last' = Step("setup_bot", f, << >>, 0, "ok", EmptyStr, Own(f),
                            Page("twitch_app", [bot_name |-> form["bot_name"],
                                                channel_name |-> form["channel_name"]]))
    /\ UNCHANGED <<frontend, files, call, cli>>

\* the Host headers that POST /oauth/start can observe: request.host is read
\* only to build the authorization URL
StartHosts(form) ==
    IF ~Truthy(form, "client_id") \/ ~Truthy(form, "client_secret") THEN {""} ELSE Hosts

\* POST /oauth/start
oauth_start(f, form, host) ==
    /\ frontend = "web"
    /\ IF ~Truthy(form, "client_id") \/ ~Truthy(form, "client_secret")
       THEN /\ last' = Step("oauth_start", f, << >>, 0, "validation", EmptyStr, Own(f),
                   RedirectIndex(Flash("Please provide both Client ID and Client Secret")))
            /\ UNCHANGED <<oauth_state, submitted>>
       ELSE /\ oauth_state' = Put(Put(oauth_state, "client_id", form["client_id"]),
                                  "client_secret", form["client_secret"])
            /\ submitted' = IF f = 1
                            THEN Put(Put(Put(submitted, "client_id", form["client_id"]),
                                         "client_secret", form["client_secret"]),
                                     "redirect_uri",
                                     web_get_oauth_url(form["client_id"], Scopes,
                                                       host).redirect_uri)
                            ELSE submitted
            /\ last' = [ Step("oauth_start", f, << >>, 0, "ok", EmptyStr, Own(f),
                               Page("oauth", [oauth_url |->
                                      web_get_oauth_url(form["client_id"], Scopes, host)]))
                          EXCEPT !.host = host ]
    /\ UNCHANGED <<frontend, files, call, cli>>

\* GET /oauth/callback: the handler renders the 'callback' page and reads
\* nothing from the request; the code stays in the address bar of the browser
oauth_callback(f, args) ==
    /\ frontend = "web"
    /\ last' = Step("oauth_callback", f, << >>, 0, "ok", Get(args, "code", EmptyStr),
                    Own(f), Page("callback", EmptyDict))
    /\ UNCHANGED <<frontend, files, oauth_state, submitted, call, cli>>

\* the script of the 'callback' page: window.location.href = url_for('process_callback');
\* the query arguments of the request the page sends, given those it was loaded with
CallbackPageArgs(callbackArgs) == EmptyDict

\* the except branch reports the files as created
ProcessFailedRendersSuccess(state, fs, written, flash, posts, status) ==
    [ state |-> state, fs |-> fs, written |-> written,
      page |-> [ step |-> "success", ctx |-> EmptyDict, flash |-> flash ],
      posts |-> posts, status |-> status, outcome |-> "complete" ]

\* a request that ends in the except branch or in the missing-code branch
ProcessFailed(state, fs, written, flash, posts, status) ==
    [ state |-> state, fs |-> fs, written |-> written, page |-> RedirectIndex(flash),
      posts |-> posts, status |-> status, outcome |-> "failed" ]

KeyErrorFlash(key) == Flash("Error processing OAuth: KeyError " \o key)

OSErrorFlash == Flash("Error processing OAuth: OSError")

\* the end of the try block: oauth_state.clear(), then the 'success' page
ProcessSuccess(state, fs, bot_config, channel_config, posts, status) ==
    LET cleared == Clear(state) IN
    [ state   |-> cleared,
      fs      |-> fs,
      written |-> <<bot_config, channel_config>>,
      page    |-> Page("success",
                       [ bot_config     |-> bot_config,
                         channel_config |-> channel_config,
                         channel_name   |-> Get(cleared, "channel_name", EmptyStr),
                         ec2_ip         |-> EC2_IP ]),
      posts   |-> posts,
      status  |-> status,
      outcome |-> "complete" ]

\* whether process_callback gets as far as requests.post
ReachesExchange(state, args) ==
    Truthy(args, "code") /\ {"client_id", "client_secret"} \subseteq DOMAIN state

\* GET /oauth/process: the whole try/except of process_callback
process_callback(state, fs, args, host, resp, botOk, chanOk) ==
    IF ~Truthy(args, "code")
    THEN ProcessFailed(state, fs, << >>, Flash("No authorization code received"), << >>, 0)
    ELSE IF "client_id" \notin DOMAIN state
    THEN ProcessFailed(state, fs, << >>, KeyErrorFlash("client_id"), << >>, 0)
    ELSE IF "client_secret" \notin DOMAIN state
    THEN ProcessFailed(state, fs, << >>, KeyErrorFlash("client_secret"), << >>, 0)
    ELSE
    LET ex == web_exchange_code_for_tokens(state["client_id"], state["client_secret"],
                                           args["code"], host, resp)
    IN
    IF ex.raised
    THEN ProcessFailed(state, fs, << >>, ExchangeFlash(ex.status, ex.text), ex.posts, ex.status)
    ELSE IF "access_token" \notin DOMAIN ex.json
    THEN ProcessFailed(state, fs, << >>, KeyErrorFlash("access_token"), ex.posts, ex.status)
    ELSE IF "refresh_token" \notin DOMAIN ex.json
    THEN ProcessFailed(state, fs, << >>, KeyErrorFlash("refresh_token"), ex.posts, ex.status)
    ELSE IF "bot_name" \notin DOMAIN state
    THEN ProcessFailed(state, fs, << >>, KeyErrorFlash("bot_name"), ex.posts, ex.status)
    ELSE IF ~botOk
    THEN ProcessFailed(state, fs, << >>, OSErrorFlash, ex.posts, ex.status)
    ELSE
    LET bc == create_bot_config(fs, state["bot_name"], state["client_id"],
                                state["client_secret"], ex.json["access_token"],
                                ex.json["refresh_token"])
    IN
    IF "channel_name" \notin DOMAIN state
    THEN ProcessFailed(state, bc.fs, <<bc.file>>, KeyErrorFlash("channel_name"), ex.posts, ex.status)
    ELSE IF ~chanOk
    THEN ProcessFailed(state, bc.fs, <<bc.file>>, OSErrorFlash, ex.posts, ex.status)
    ELSE
    LET cc == create_channel_config(bc.fs, state["bot_name"], state["channel_name"])
    IN  ProcessSuccess(state, cc.fs, bc.file, cc.file, ex.posts, ex.status)

\* a GET /oauth/process request of browser f and its effect; the flow of
\* the browser ends with it, in Complete or in Failed
ProcessRequest(handler, f, delivered, args, host, resp, botOk, chanOk) ==
    LET r == process_callback(oauth_state, files, args, host, resp, botOk, chanOk) IN
    /\ frontend = "web"
    /\ oauth_state' = r.state
    /\ files' = r.fs
    /\ submitted' = IF f = 1 THEN EmptyDict ELSE submitted
    /\ last' = [ Step(handler, f, r.posts, r.status, r.outcome,
                       Get(args, "code", EmptyStr), Own(f), r.page)
                  EXCEPT !.env = <<resp, botOk, chanOk>>, !.delivered = delivered,
                         !.written = r.written, !.replaced = Replaced(files, r.written),
                         !.host = host ]
    /\ UNCHANGED <<frontend, call, cli>>

\* the answers of the environment that the request can observe: those of the
\* token endpoint when it is called, those of the file system when the call
\* returned tokens
ProcessAnswers(args) ==
    IF ~ReachesExchange(oauth_state, args) THEN {NoEnv}
    ELSE {<<r, TRUE, TRUE>> : r \in Responses}
         \cup {<<r, ok[1], ok[2]>> :
                  r \in {x \in Responses :
                            /\ x.status = 200
                            /\ {"access_token", "refresh_token"} \subseteq DOMAIN x.body.json},
                  ok \in FsAnswers}

\* the Host headers that the request can observe: request.host is read only
\* to build the redirect_uri of the token request
ProcessHosts(args) ==
    IF ReachesExchange(oauth_state, args) THEN Hosts ELSE {""}

\* the browser follows the script of the 'callback' page it has just loaded
ProcessFromCallbackPage(f) ==
    /\ last.handler = "oauth_callback" /\ last.flow = f
    /\ LET args == CallbackPageArgs(IF last.code # EmptyStr THEN [code |-> last.code]
                                    ELSE EmptyDict)
       IN  \E h \in ProcessHosts(args), a \in ProcessAnswers(args) :
              ProcessRequest("callback page", f, last.code, args, h, a[1], a[2], a[3])

\* a GET /oauth/process request sent in any other way, with any query string
ProcessDirect(f, args) ==
    /\ \E h \in ProcessHosts(args), a \in ProcessAnswers(args) :
          ProcessRequest("process_callback", f, EmptyStr, args, h, a[1], a[2], a[3])

(* ------------------------------------------------------------------ *)
(* Interactive front-end: twitch_oauth_helper.py                       *)
(* ------------------------------------------------------------------ *)
\* the redirect_uri of the token request
CliRedirectUri == <<"http://localhost:3000">>

cli_get_oauth_url(client_id, scopes) ==
    [ base          |-> "https://id.twitch.tv/oauth2/authorize",
      client_id     |-> client_id,
      redirect_uri  |-> <<"http://localhost:3000">>,
      response_type |-> "code",
      scope         |-> scopes ]

\* parse_qs(..., keep_blank_values=True)
parse_qs_keep_blank(query) == query

\* parse_qs(urlparse(url).query): parameters with a blank value are dropped
parse_qs(query) == [k \in {x \in DOMAIN query : query[x] # EmptyStr} |-> query[k]]

\* helper exchange_code_for_tokens: one POST; any status but 200 is sys.exit(1)
cli_exchange_code_for_tokens(client_id, client_secret, auth_code, resp) ==
    [ posts  |-> << [ url           |-> "https://id.twitch.tv/oauth2/token",
                      client_id     |-> client_id,
                      client_secret |-> client_secret,
                      code          |-> auth_code,
                      grant_type    |-> "authorization_code",
                      redirect_uri  |-> CliRedirectUri ] >>,
      exits  |-> resp.status # 200,
      status |-> resp.status,
      text   |-> resp.body.text,
      json   |-> resp.body.json ]

\* helper refresh_token (the module-level function): one POST; None unless 200
cli_refresh_token(client_id, client_secret, refresh_token, resp) ==
    [ posts  |-> << [ url           |-> "https://id.twitch.tv/oauth2/token",
                      client_id     |-> client_id,
                      client_secret |-> client_secret,
                      refresh_token |-> refresh_token,
                      grant_type    |-> "refresh_token" ] >>,
      isNone |-> resp.status # 200,
      status |-> resp.status ]

\* What the name refresh_token denotes inside main() at line 185.  main()
\* assigns to refresh_token (line 181), so the name is local to main() in
\* its whole body: at line 185 it is the value of tokens['refresh_token'],
\* not the module-level function.
MainRefreshTokenName(local_refresh_token) == [callable |-> FALSE, value |-> local_refresh_token]

CliLocals ==
    [ pc |-> "identity", run |-> 1, posts |-> << >>, warned |-> FALSE,
      oauth_url |-> cli_get_oauth_url(EmptyStr, Scopes),
      bot_name |-> EmptyStr, channel_name |-> EmptyStr, client_id |-> EmptyStr,
      client_secret |-> EmptyStr, auth_code |-> EmptyStr, access_token |-> EmptyStr,
      refresh_token |-> EmptyStr ]

\* the redirect URLs pasted at the prompt of get_auth_code, as their query part
RedirectUrls == {EmptyDict, [code |-> EmptyStr], [code |-> <<"x">>], [state |-> <<"z">>]}

\* raw terminal input for a name: surrounded by blanks or not
RawInputs(values) == values \cup {<<" ">> \o v \o <<" ">> : v \in values}

CliNames == {EmptyStr, <<"a">>}

CliChannels == {EmptyStr, <<"c">>}

CliStep(handler, posts, status, outcome, code) ==
    Step(handler, 0, posts, status, outcome, code, EmptyDict, NoPage)

\* print(f"Error: {response.status_code} - {response.text}")
CliPrintError(status, text) ==
    [ step |-> "", ctx |-> EmptyDict,
      flash |-> [category |-> "stdout", message |-> "Error: ", status |-> status,
                 text |-> text] ]

\* main, lines 161-164: the two name prompts
CliIdentity(raw_bot, raw_channel) ==
    /\ frontend = "cli"
    /\ cli.pc = "identity"
    /\ cli' = [cli EXCEPT !.pc = "create_twitch_app",
                          !.bot_name = Strip(raw_bot),
                          !.channel_name = Strip(raw_channel)]
    /\ last' = CliStep("main", << >>, 0, "ok", EmptyStr)
    /\ UNCHANGED <<frontend, files, webVars>>

\* create_twitch_app and get_oauth_url, main lines 167-172
CliCreateTwitchApp(raw_id, raw_secret) ==
    /\ frontend = "cli"
    /\ cli.pc = "create_twitch_app"
    /\ cli' = [cli EXCEPT !.pc = "get_auth_code",
                          !.client_id = Strip(raw_id),
                          !.client_secret = Strip(raw_secret),
                          !.oauth_url = cli_get_oauth_url(Strip(raw_id), Scopes)]
    /\ last' = CliStep("create_twitch_app", << >>, 0, "ok", EmptyStr)
    /\ UNCHANGED <<frontend, files, webVars>>

\* get_auth_code: the pasted redirect URL is parsed for its code
CliGetAuthCode(query) ==
    /\ frontend = "cli"
    /\ cli.pc = "get_auth_code"
    /\ LET params == parse_qs(query) IN
       IF "code" \notin DOMAIN params
       THEN /\ cli' = [cli EXCEPT !.pc = "exit"]
            /\ last' = CliStep("get_auth_code", << >>, 0, "failed", EmptyStr)
       ELSE /\ cli' = [cli EXCEPT !.pc = "exchange", !.auth_code = params["code"]]
            /\ last' = CliStep("get_auth_code", << >>, 0, "ok", params["code"])
    /\ UNCHANGED <<frontend, files, webVars>>

\* main lines 178-181: the exchange and the two lookups in its result
CliExchange(resp) ==
    /\ frontend = "cli"
    /\ cli.pc = "exchange"
    /\ LET ex == cli_exchange_code_for_tokens(cli.client_id, cli.client_secret,
                                              cli.auth_code, resp)
       IN
       IF ex.exits
       THEN /\ cli' = [cli EXCEPT !.pc = "exit", !.posts = cli.posts \o ex.posts]
            /\ last' = [ CliStep("exchange_code_for_tokens", ex.posts, ex.status,
                                  "failed", cli.auth_code)
                          EXCEPT !.env = <<resp, TRUE, TRUE>>,
                                 !.page = CliPrintError(ex.status, ex.text) ]
       ELSE IF {"access_token", "refresh_token"} \subseteq DOMAIN ex.json
       THEN /\ cli' = [cli EXCEPT !.pc = "refresh", !.posts = cli.posts \o ex.posts,
                                  !.access_token = ex.json["access_token"],
                                  !.refresh_token = ex.json["refresh_token"]]
            /\ last' = [ CliStep("exchange_code_for_tokens", ex.posts, ex.status, "ok",
                                  cli.auth_code)
                          EXCEPT !.env = <<resp, TRUE, TRUE>> ]
       ELSE /\ cli' = [cli EXCEPT !.pc = "traceback", !.posts = cli.posts \o ex.posts]
            /\ last' = [ CliStep("exchange_code_for_tokens", ex.posts, ex.status, "failed",
                                  cli.auth_code)
                          EXCEPT !.env = <<resp, TRUE, TRUE>> ]
    /\ UNCHANGED <<frontend, files, webVars>>

\* main lines 185-201: the refresh smoke test, the two files, the report
main_tail(locals, fs, resp, botOk, chanOk) ==
    LET name == MainRefreshTokenName(locals.refresh_token) IN
    IF ~name.callable
    THEN [pc |-> "traceback", fs |-> fs, written |-> << >>, posts |-> << >>, status |-> 0,
          warned |-> FALSE]
    ELSE
    LET rf == cli_refresh_token(locals.client_id, locals.client_secret,
                                locals.refresh_token, resp)
    IN
    IF ~botOk
    THEN [pc |-> "traceback", fs |-> fs, written |-> << >>, posts |-> rf.posts,
          status |-> rf.status, warned |-> rf.isNone]
    ELSE
    LET bc == create_bot_config(fs, locals.bot_name, locals.client_id, locals.client_secret,
                                locals.access_token, locals.refresh_token)
    IN
    IF ~chanOk
    THEN [pc |-> "traceback", fs |-> bc.fs, written |-> <<bc.file>>, posts |-> rf.posts,
          status |-> rf.status, warned |-> rf.isNone]
    ELSE
    LET cc == create_channel_config(bc.fs, locals.bot_name, locals.channel_name) IN
    [pc |-> "complete", fs |-> cc.fs, written |-> <<bc.file, cc.file>>, posts |-> rf.posts,
     status |-> rf.status, warned |-> rf.isNone]

CliRefreshAndPersist(resp, botOk, chanOk) ==
    /\ frontend = "cli"
    /\ cli.pc = "refresh"
    /\ LET r == main_tail(cli, files, resp, botOk, chanOk) IN
       /\ cli' = [cli EXCEPT !.pc = r.pc, !.posts = cli.posts \o r.posts,
                             !.warned = r.warned]
       /\ files' = r.fs
       /\ last' = [ CliStep("main_tail", r.posts, r.status,
                             IF r.pc = "complete" THEN "complete" ELSE "failed",
                             cli.auth_code)
                     EXCEPT !.env = <<resp, botOk, chanOk>>, !.written = r.written,
                            !.replaced = Replaced(files, r.written) ]
    /\ UNCHANGED <<frontend, webVars>>

\* the operator starts the script again after it ended
CliRunAgain ==
    /\ frontend = "cli"
    /\ cli.pc \in {"exit", "traceback", "complete"}
    /\ cli.run < MaxRuns
    /\ cli' = [CliLocals EXCEPT !.run = cli.run + 1]
    /\ last' = CliStep("start", << >>, 0, "ok", EmptyStr)
    /\ UNCHANGED <<frontend, files, webVars>>

(* ------------------------------------------------------------------ *)
(* Initial state and next-state relation                               *)
(* ------------------------------------------------------------------ *)
\* a bot file left by an earlier, hand-edited setup: other values and a sixth line
EarlierBotFile ==
    BotConfigLines(<<"a">>, <<"o">>, <<"o">>, <<"O">>, <<"O">>)
        \o << QuotedLine("irc_server", <<"o">>, << >>) >>

InitialFiles == {EmptyDict, Put(EmptyDict, BotConfigPath(<<"a">>), EarlierBotFile)}

Init ==
    /\ frontend \in {"cli", "web"}
    /\ files \in InitialFiles
    /\ oauth_state = EmptyDict
    /\ submitted = EmptyDict
    /\ call = NoCall
    /\ last = NoStep
    /\ cli = CliLocals

WebNext ==
    \/ \E f \in Flows : index(f)
    \/ \E f \in Flows, form \in SetupForms : setup_bot(f, form)
    \/ \E f \in Flows, form \in StartForms :
          \E h \in StartHosts(form) : oauth_start(f, form, h)
    \/ \E f \in Flows, a \in QueryArgs : oauth_callback(f, a)
    \/ \E f \in Flows : ProcessFromCallbackPage(f)
    \/ \E f \in Flows, a \in QueryArgs : ProcessDirect(f, a)

CliNext ==
    \/ \E b \in RawInputs(CliNames), c \in RawInputs(CliChannels) : CliIdentity(b, c)
    \/ \E i \in RawInputs(ClientIds), s \in RawInputs(ClientSecrets) : CliCreateTwitchApp(i, s)
    \/ \E q \in RedirectUrls : CliGetAuthCode(q)
    \/ \E r \in Responses : CliExchange(r)
    \/ \E r \in Responses, ok \in FsAnswers : CliRefreshAndPersist(r, ok[1], ok[2])
    \/ CliRunAgain

Next == WebNext \/ CliNext

Spec == Init /\ [][Next]_vars

TypeOK ==
    /\ frontend \in {"cli", "web"}
    /\ DOMAIN oauth_state \subseteq {"bot_name", "channel_name", "client_id", "client_secret"}
    /\ cli.pc \in {"identity", "create_twitch_app", "get_auth_code", "exchange", "refresh",
                   "exit", "traceback", "complete"}

(* ------------------------------------------------------------------ *)
(* The configuration writers on their own                              *)
(* ------------------------------------------------------------------ *)
Alphabet == {"a", "_", "\""}

Strings(n) == UNION {[1..k -> Alphabet] : k \in 0..n}

InitCfg ==
    /\ frontend = "writer"
    /\ files = EmptyDict
    /\ oauth_state = EmptyDict
    /\ submitted = EmptyDict
    /\ call \in [ bot_name : Strings(MaxLen), channel_name : Strings(MaxLen),
                  client_id : {<<"i">>}, client_secret : {<<"s">>},
                  access_token : AccessTokens, refresh_token : RefreshTokens ]
    /\ last = NoStep
    /\ cli = CliLocals

CallCreateBotConfig ==
    /\ frontend = "writer"
    /\ LET r == create_bot_config(files, call.bot_name, call.client_id, call.client_secret,
                                  call.access_token, call.refresh_token)
       IN  /\ files' = r.fs
           /\ last' = [ Step("create_bot_config", 0, << >>, 0, "ok", EmptyStr, EmptyDict, NoPage)
                        EXCEPT !.written = <<r.file>>, !.replaced = Replaced(files, <<r.file>>) ]
    /\ UNCHANGED <<frontend, oauth_state, submitted, call, cli>>

CallCreateChannelConfig ==
    /\ frontend = "writer"
    /\ LET r == create_channel_config(files, call.bot_name, call.channel_name)
       IN  /\ files' = r.fs
           /\ last' = [ Step("create_channel_config", 0, << >>, 0, "ok", EmptyStr, EmptyDict,
                             NoPage)
                        EXCEPT !.written = <<r.file>>, !.replaced = Replaced(files, <<r.file>>) ]
    /\ UNCHANGED <<frontend, oauth_state, submitted, call, cli>>

NextCfg == CallCreateBotConfig \/ CallCreateChannelConfig

SpecCfg == InitCfg /\ [][NextCfg]_vars

(* ------------------------------------------------------------------ *)
(* Properties                                                          *)
(* ------------------------------------------------------------------ *)
SessionFields == {"bot_name", "channel_name", "client_id", "client_secret"}

BotFileKeys == {"bot_name", "oauth", "client_id", "client_secret", "refresh_token"}

ChannelFileKeys == {"bot_name", "channel", "commands_enabled", "cooldown_seconds"}

IsProcessStep == last.handler \in {"process_callback", "callback page"}

\* the token endpoint answers 200 with both tokens and the file system accepts both writes
GoodAnswer(env) ==
    /\ env[1].status = 200
    /\ {"access_token", "refresh_token"} \subseteq DOMAIN env[1].body.json
    /\ env[2] /\ env[3]

\* the bot file at path p reads back with these five values and nothing else
BotFileHolds(p, bot_name, client_id, client_secret, access_token, refresh_token) ==
    /\ p \in DOMAIN files
    /\ Len(files[p]) = 5
    /\ ReadKeys(files[p]) = BotFileKeys
    /\ HasStr(files[p], "bot_name", bot_name)
    /\ HasStr(files[p], "oauth", <<"oauth:">> \o access_token)
    /\ HasStr(files[p], "client_id", client_id)
    /\ HasStr(files[p], "client_secret", client_secret)
    /\ HasStr(files[p], "refresh_token", refresh_token)

ChannelFileHolds(p, bot_name, channel_name) ==
    /\ p \in DOMAIN files
    /\ Len(files[p]) = 4
    /\ ReadKeys(files[p]) = ChannelFileKeys
    /\ HasStr(files[p], "bot_name", bot_name)
    /\ HasStr(files[p], "channel", channel_name)
    /\ HasPlain(files[p], "commands_enabled", "true")
    /\ HasPlain(files[p], "cooldown_seconds", "30")

\* C1: in the interactive front-end, with non-empty names and credentials, a
\* pasted URL with a code, an exchange answered 200 with tokens A and R, a
\* refresh answered 200 and a file system that accepts the writes, the run
\* ends Complete, both files are written and the bot file holds
\* oauth = "oauth:" + A and refresh_token = R.
C1_InteractiveRunCompletes ==
    ( /\ frontend = "cli"
      /\ last.handler = "main_tail"
      /\ cli.bot_name # EmptyStr /\ cli.channel_name # EmptyStr
      /\ cli.client_id # EmptyStr /\ cli.client_secret # EmptyStr
      /\ last.env[1].status = 200 /\ last.env[2] /\ last.env[3] )
    => ( /\ cli.pc = "complete"
         /\ ChannelConfigPath(cli.channel_name) \in DOMAIN files
         /\ BotFileHolds(BotConfigPath(cli.bot_name), cli.bot_name, cli.client_id,
                         cli.client_secret, cli.access_token, cli.refresh_token) )

\* C2: in the web front-end, after POST /setup and POST /oauth/start with
\* non-empty fields, the code delivered on GET /oauth/callback?code=X is the
\* code that the GET /oauth/process triggered by the callback page passes to
\* the token exchange, and with a 200 answer carrying tokens the flow ends
\* on the 'success' page with the bot file holding the tokens.
C2_CallbackCodeIsExchanged ==
    ( /\ last.handler = "callback page"
      /\ last.flow = 1
      /\ last.delivered # EmptyStr
      /\ SessionFields \subseteq DOMAIN last.own )
    => ( /\ Len(last.posts) = 1
         /\ last.posts[1].code = last.delivered
         /\ GoodAnswer(last.env) =>
               /\ last.outcome = "complete"
               /\ last.page.step = "success"
               /\ HasStr(files[last.written[1]], "oauth",
                         <<"oauth:">> \o last.env[1].body.json["access_token"])
               /\ HasStr(files[last.written[1]], "refresh_token",
                         last.env[1].body.json["refresh_token"]) )

\* C3: in both front-ends, a step whose authorization-code exchange is
\* answered with HTTP 400 ends the flow in Failed, executes neither
\* create_bot_config nor create_channel_config and leaves every config file
\* as it was.
C3_Exchange400WritesNothing ==
    [][ ( /\ last'.posts # << >>
          /\ last'.posts[1].grant_type = "authorization_code"
          /\ last'.status = 400 )
        => ( /\ files' = files
             /\ last'.written = << >>
             /\ last'.outcome = "failed"
             /\ frontend = "cli" => cli'.pc = "exit"
             /\ frontend = "web" => last'.page = RedirectIndex(last'.page.flash) ) ]_vars

C3_Witness ==
    /\ frontend = "web"
    /\ IsProcessStep
    /\ last.posts # << >>
    /\ last.status = 400
    /\ last.outcome = "failed"
    /\ BotConfigPath(<<"a">>) \in DOMAIN files

\* C4: in the interactive front-end, when the exchange succeeded and the
\* refresh smoke test is answered with HTTP 500, the failure is only a
\* warning: both config files are written and the run ends Complete.
C4_RefreshFailureIsWarning ==
    ( /\ frontend = "cli"
      /\ last.handler = "main_tail"
      /\ last.env[1].status = 500 /\ last.env[2] /\ last.env[3] )
    => ( /\ cli.pc = "complete"
         /\ cli.warned
         /\ Len(last.written) = 2 )

\* C5: when no authorization code is supplied (interactive: the pasted URL
\* has no code parameter; web: GET /oauth/process carries no code), the flow
\* is Failed and no POST to the token endpoint is issued in that attempt; the
\* interactive process has exited and the web front-end has redirected to
\* the start page.
C5_MissingCodeNoPost ==
    /\ (IsProcessStep /\ last.code = EmptyStr) =>
          /\ last.outcome = "failed"
          /\ last.posts = << >>
          /\ last.page = RedirectIndex(Flash("No authorization code received"))
    /\ (last.handler = "get_auth_code" /\ last.code = EmptyStr) =>
          /\ last.outcome = "failed"
          /\ cli.pc = "exit"
    /\ (cli.pc \in {"get_auth_code", "exit"} /\ cli.auth_code = EmptyStr) => cli.posts = << >>
    /\ cli.pc \in {"exchange", "refresh"} => cli.auth_code # EmptyStr

C5_Witness ==
    /\ last.handler = "get_auth_code"
    /\ last.code = EmptyStr
    /\ cli.pc = "exit"
    /\ cli.client_id # EmptyStr

\* C6: in the web front-end, requests of a second flow that arrive while a
\* first flow is between its POST /setup and its end do not change the
\* session of the first: the files written when the first flow completes
\* carry the bot name, channel name, client id and client secret that this
\* flow submitted.
C6_FlowWritesItsOwnFields ==
    ( /\ IsProcessStep
      /\ last.flow = 1
      /\ last.outcome = "complete"
      /\ SessionFields \subseteq DOMAIN last.own )
    => ( /\ last.written = << BotConfigPath(last.own["bot_name"]),
                              ChannelConfigPath(last.own["channel_name"]) >>
         /\ HasStr(files[last.written[1]], "bot_name", last.own["bot_name"])
         /\ HasStr(files[last.written[1]], "client_id", last.own["client_id"])
         /\ HasStr(files[last.written[1]], "client_secret", last.own["client_secret"])
         /\ HasStr(files[last.written[2]], "bot_name", last.own["bot_name"])
         /\ HasStr(files[last.written[2]], "channel", last.own["channel_name"]) )

\* C7: a flow that reaches Complete with a bot name whose bot config file
\* already exists leaves that file with exactly the five fields of this run
\* and their new values; no line of the earlier file survives.
C7_RerunOverwrites ==
    ( /\ last.outcome = "complete"
      /\ last.written # << >>
      /\ last.written[1] \in last.replaced )
    => \E b \in BotNames :
          /\ last.written[1] = <<"configs/bots/">> \o b \o <<"_auth_secrets.yaml">>
          /\ files[last.written[1]] =
                << <<"bot_name", ":", " ", "\"">> \o b \o <<"\"">>,
                   <<"oauth", ":", " ", "\"", "oauth:">>
                       \o last.env[1].body.json["access_token"] \o <<"\"">>,
                   <<"client_id", ":", " ", "\"">> \o last.posts[1].client_id \o <<"\"">>,
                   <<"client_secret", ":", " ", "\"">>
                       \o last.posts[1].client_secret \o <<"\"">>,
                   <<"refresh_token", ":", " ", "\"">>
                       \o last.env[1].body.json["refresh_token"] \o <<"\"">> >>

C7_Witness ==
    /\ last.outcome = "complete"
    /\ last.written # << >>
    /\ last.written[1] \in last.replaced
    /\ last.posts[1].client_id = <<"i">>

\* the names the configuration is meant for: non-empty, of letters, digits
\* and underscores (a Twitch login)
ValidName(name) == name # EmptyStr /\ \A i \in 1..Len(name) : name[i] \in {"a", "_"}

\* C8: for valid names b and c, create_bot_config writes and returns
\* configs/bots/<b>_auth_secrets.yaml, create_channel_config writes and
\* returns configs/channels/<c>_config_secrets.yaml, and the written file
\* reads back with the values passed in: bot_name, "oauth:" + access token,
\* client_id, client_secret, refresh_token; bot_name, channel,
\* commands_enabled = true, cooldown_seconds = 30.
C8_ConfigRoundTrip ==
    /\ (last.handler = "create_bot_config" /\ ValidName(call.bot_name)) =>
          /\ last.written =
                << <<"configs/bots/">> \o call.bot_name \o <<"_auth_secrets.yaml">> >>
          /\ BotFileHolds(last.written[1], call.bot_name, call.client_id,
                          call.client_secret, call.access_token, call.refresh_token)
    /\ ( /\ last.handler = "create_channel_config"
         /\ ValidName(call.bot_name) /\ ValidName(call.channel_name) ) =>
          /\ last.written =
                << <<"configs/channels/">> \o call.channel_name
                      \o <<"_config_secrets.yaml">> >>
          /\ ChannelFileHolds(last.written[1], call.bot_name, call.channel_name)

C8_Witness ==
    /\ last.handler = "create_channel_config"
    /\ ValidName(call.bot_name) /\ ValidName(call.channel_name)
    /\ Len(call.bot_name) = MaxLen
    /\ BotConfigPath(call.bot_name) \in DOMAIN files

GrantCount(posts, grant) ==
    Cardinality({i \in 1..Len(posts) : posts[i].grant_type = grant})

\* C9: no external call is retried: a step issues at most one POST, and a
\* run of the interactive script issues the exchange POST at most once and
\* the refresh POST at most once, whatever the responses.
C9_NoRetry ==
    /\ Len(last.posts) <= 1
    /\ GrantCount(cli.posts, "authorization_code") <= 1
    /\ GrantCount(cli.posts, "refresh_token") <= 1

C9_Witness ==
    /\ frontend = "web"
    /\ IsProcessStep
    /\ last.status = 500
    /\ Len(last.posts) = 1
    /\ last.outcome = "failed"

\* C10: in both front-ends the flow is past CollectingIdentity only with a
\* non-empty bot name and a non-empty channel name.
C10_IdentityNonEmpty ==
    /\ (frontend = "cli" /\ cli.pc # "identity") =>
          (cli.bot_name # EmptyStr /\ cli.channel_name # EmptyStr)
    /\ "bot_name" \in DOMAIN oauth_state => oauth_state["bot_name"] # EmptyStr
    /\ "channel_name" \in DOMAIN oauth_state => oauth_state["channel_name"] # EmptyStr

\* C11: in both front-ends the authorization URL is built, and the flow is
\* awaiting authorization, only with a non-empty client id and a non-empty
\* client secret; a request with a missing credential is answered with the
\* credentials form again.
C11_CredentialsNonEmpty ==
    /\ (frontend = "cli" /\ cli.pc \notin {"identity", "create_twitch_app"}) =>
          /\ cli.client_id # EmptyStr /\ cli.client_secret # EmptyStr
          /\ cli.oauth_url.client_id # EmptyStr
    /\ (last.handler = "oauth_start" /\ last.page.step = "oauth") =>
          /\ last.page.ctx.oauth_url.client_id # EmptyStr
          /\ Truthy(oauth_state, "client_id") /\ Truthy(oauth_state, "client_secret")
    /\ (last.handler = "oauth_start" /\ last.outcome = "validation") =>
          /\ last.page.step = "twitch_app"
          /\ last.page.flash.category = "error"

\* C12: in the web front-end GET /oauth/process calls the token endpoint only
\* in a session that holds a bot name and a channel name stored by POST /setup
\* and a client id and a client secret stored by POST /oauth/start (a request
\* that fails leaves the session as it found it; one that completes had all
\* four fields).
C12_ExchangeOnlyInOrder ==
    (IsProcessStep /\ last.posts # << >>) =>
        (last.outcome = "complete" \/ SessionFields \subseteq DOMAIN oauth_state)

\* C13: in the web front-end oauth_state is empty after every GET
\* /oauth/process, whether the flow ended Complete or Failed.
C13_SessionDiscardedAtEnd ==
    IsProcessStep => oauth_state = EmptyDict

\* C14: when the authorization-code exchange is answered with a status
\* outside 200-299, no tokens are returned, nothing is written and the flow
\* is Failed with a message that carries the status code and the response
\* body of the token endpoint unchanged: printed before exit in the
\* interactive front-end, flashed with a redirect to the start page in the
\* web front-end.
C14_FailedExchangeReported ==
    ( /\ last.posts # << >>
      /\ last.posts[1].grant_type = "authorization_code"
      /\ last.env[1].status \notin 200..299 )
    => ( /\ last.outcome = "failed"
         /\ last.written = << >>
         /\ last.page.flash.status = last.env[1].status
         /\ last.page.flash.text = last.env[1].body.text
         /\ frontend = "cli" =>
               /\ cli.pc = "exit"
               /\ last.page.flash.category = "stdout"
               /\ cli.access_token = EmptyStr /\ cli.refresh_token = EmptyStr
         /\ frontend = "web" =>
               /\ last.page.step = "setup"
               /\ last.page.flash.category = "error" )

C14_Witness ==
    /\ frontend = "web"
    /\ IsProcessStep
    /\ last.env[1].status = 500
    /\ last.page.flash.status = 500
    /\ last.page.flash.text = ErrorBody.text
    /\ last.page.step = "setup"

\* the token endpoint answered 200 with both tokens
GoodTokens(resp) ==
    resp.status = 200 /\ {"access_token", "refresh_token"} \subseteq DOMAIN resp.body.json

\* C15: a flow is Complete only when both config files have been written;
\* when the file system rejects the bot file the flow is Failed with nothing
\* written, and when it rejects the channel file the flow is Failed with the
\* bot file, written first, left on disk; neither reports completion.
C15_CompleteOnlyWithBothFiles ==
    /\ last.outcome = "complete" =>
          /\ Len(last.written) = 2
          /\ last.env[2] /\ last.env[3]
          /\ \A i \in 1..2 : last.written[i] \in DOMAIN files
    /\ ((IsProcessStep \/ last.handler = "main_tail") /\ ~last.env[2]) =>
          /\ last.outcome = "failed"
          /\ last.written = << >>
          /\ last.page.step # "success"
    /\ ((IsProcessStep \/ last.handler = "main_tail") /\ last.env[2] /\ ~last.env[3]) =>
          /\ last.outcome = "failed"
          /\ last.page.step # "success"
          /\ Len(last.written) <= 1
    /\ ( /\ IsProcessStep /\ GoodTokens(last.env[1]) /\ last.env[2] /\ ~last.env[3]
         /\ "bot_name" \in DOMAIN oauth_state ) =>
          /\ last.written = << <<"configs/bots/">> \o oauth_state["bot_name"]
                                  \o <<"_auth_secrets.yaml">> >>
          /\ last.written[1] \in DOMAIN files

C15_Witness ==
    /\ IsProcessStep
    /\ GoodTokens(last.env[1]) /\ last.env[2] /\ ~last.env[3]
    /\ last.outcome = "failed"
    /\ Len(last.written) = 1
    /\ last.written[1] \in DOMAIN files
    /\ "channel_name" \in DOMAIN oauth_state
    /\ ChannelConfigPath(oauth_state["channel_name"]) \notin DOMAIN files

IsErrorRedirect(page) ==
    page.step = "setup" /\ page.flash.category = "error"

\* C18: in the web front-end, a GET /oauth/process that follows a completed
\* flow directly, or finds the session empty because nothing was stored
\* since, calls no token endpoint, leaves every config file as it was and
\* ends with an error redirect to the start page.
C18_NoExchangeAfterComplete ==
    [][ ( /\ frontend = "web"
          /\ IsProcessStep'
          /\ \/ oauth_state = EmptyDict
             \/ IsProcessStep /\ last.outcome = "complete" )
        => ( /\ last'.posts = << >>
             /\ last'.written = << >>
             /\ files' = files
             /\ last'.outcome = "failed"
             /\ IsErrorRedirect(last'.page) ) ]_vars

C18_Witness ==
    /\ IsProcessStep
    /\ last.code # EmptyStr
    /\ last.outcome = "failed"
    /\ last.posts = << >>
    /\ oauth_state = EmptyDict
    /\ \E p \in DOMAIN files : p[1] = "configs/channels/"

\* C19: in the web front-end the 'success' page of a completed flow carries
\* the channel name of that flow, the one written to the channel config.
C19_SuccessViewNamesChannel ==
    (IsProcessStep /\ last.outcome = "complete") =>
        /\ last.page.step = "success"
        /\ last.page.ctx.channel_name # EmptyStr
        /\ last.written[2] = <<"configs/channels/">> \o last.page.ctx.channel_name
                                \o <<"_config_secrets.yaml">>

====
